---- MODULE Spec2Model ----
(***************************************************************************)
(* Model of the on-disk object store of store.go: the key -> PathKey       *)
(* transforms, the Store built by NewStore, and Has / Clear / Delete /     *)
(* Write / WriteDecrypt / Read over a model of the filesystem calls they   *)
(* make (os.Stat, os.MkdirAll, os.Create, os.Open, os.RemoveAll, io.Copy). *)
(*                                                                         *)
(* A Go string is a sequence of one-character strings.  A cleaned path     *)
(* (the result of filepath.Join, or a path the kernel resolved) is the     *)
(* sequence of its segments, each written as one TLA+ string.  All paths   *)
(* are relative to the working directory, which is <<>>.                   *)
(***************************************************************************)
EXTENDS Integers, Sequences, FiniteSets, TLC

(***************************************************************************)
(* Bounds and input sets                                                   *)
(***************************************************************************)
MaxLen == 1          \* longest byte sequence given to a write in Spec
MaxFiles == 2        \* regular files the filesystem holds in Spec
MaxConcLen == 2      \* longest byte sequence of a concurrent writer
ChunkLen == 1        \* bytes moved by one step of the copy loop
MaxSanLen == 4       \* longest string given to sanitizePathComponent

Bytes == {"x", "y"}
Hole == "0"          \* the zero byte the filesystem reads from a hole

RECURSIVE SeqsUpTo(_, _)
SeqsUpTo(S, n) ==
    IF n = 0 THEN {<<>>}
    ELSE LET shorter == SeqsUpTo(S, n - 1)
         IN shorter \cup {Append(s, c) : s \in {t \in shorter : Len(t) = n - 1}, c \in S}

Contents == SeqsUpTo(Bytes, MaxLen)
ConcContents == SeqsUpTo(Bytes, MaxConcLen)

Ids == {<<"q", ":">>}
Keys == {<<>>, <<"a">>, <<"a", "/", "a">>, <<"a", "/", "b">>, <<".", ".">>}
Roots == {<<":", "n">>}
ConcKeys == {<<"a">>, <<"a", "/", "b">>}
\* two ids that sanitize to the same name, and an id that leads from the
\* storage directory to the directory named by Root
IsoIds == {<<"q", ":">>, <<"q", "_">>, <<".", ".", "/", "_", "n", "/", "q", "_">>}
IsoKeys == {<<"a", "_">>}
\* two keys that sanitize to the same name
CollKeys == {<<"a", ":">>, <<"a", "_">>}
EncKeys == {"k1"}
SanAlphabet == {"c", "O", "n", "a", "u", "X", ".", "/"}
SanInputs == SeqsUpTo(SanAlphabet, MaxSanLen)
Transforms == {"nil", "Default", "CAS"}

(***************************************************************************)
(* strings                                                                 *)
(***************************************************************************)
\* strings.ReplaceAll(path, ":", "_")
ReplaceAll(s, old, new) == [i \in 1..Len(s) |-> IF s[i] = old THEN new ELSE s[i]] \o <<>>

\* strings.Split(s, "/"): never empty, Split("") = [""]
RECURSIVE Split(_, _)
Split(s, sep) ==
    IF \A i \in 1..Len(s) : s[i] # sep THEN <<s>>
    ELSE LET i == CHOOSE j \in 1..Len(s) : s[j] = sep /\ \A m \in 1..(j - 1) : s[m] # sep
         IN <<SubSeq(s, 1, i - 1)>> \o Split(SubSeq(s, i + 1, Len(s)), sep)

\* strings.Join(paths, "/")
RECURSIVE JoinStrings(_, _)
JoinStrings(parts, sep) ==
    IF parts = <<>> THEN <<>>
    ELSE IF Len(parts) = 1 THEN parts[1]
    ELSE parts[1] \o <<sep>> \o JoinStrings(Tail(parts), sep)

\* a Go string as one TLA+ string, and the segments of a path string
RECURSIVE Str(_)
Str(s) == IF s = <<>> THEN "" ELSE Head(s) \o Str(Tail(s))

Segments(str) == LET parts == Split(str, "/") IN [i \in 1..Len(parts) |-> Str(parts[i])] \o <<>>

\* filepath.Clean on the segments of a relative path: empty and "." segments
\* are dropped, ".." removes the segment before it, or stays when there is none.
RECURSIVE CleanFrom(_, _)
CleanFrom(stack, segs) ==
    IF segs = <<>> THEN stack
    ELSE LET s == Head(segs)
             next == IF s = "" \/ s = "." THEN stack
                     ELSE IF s = ".."
                          THEN IF stack # <<>> /\ stack[Len(stack)] # ".."
                               THEN SubSeq(stack, 1, Len(stack) - 1)
                               ELSE Append(stack, s)
                          ELSE Append(stack, s)
         IN CleanFrom(next, Tail(segs))

\* filepath.Join(base, elem): base is an already cleaned path, elem a string
Join(base, elem) == CleanFrom(base, Segments(elem))

\* the cleaned path of a string
PathOf(str) == CleanFrom(<<>>, Segments(str))

IsPrefix(p, q) == Len(p) <= Len(q) /\ SubSeq(q, 1, Len(p)) = p

(***************************************************************************)
(* hex.EncodeToString(sha1.Sum([]byte(key))): the SHA-1 digests of the     *)
(* keys of the model, 40 hexadecimal characters each                       *)
(***************************************************************************)
HashStr(key) ==
    CASE key = <<>> ->
           <<"d", "a", "3", "9", "a", "3", "e", "e", "5", "e", "6", "b", "4", "b", "0", "d", "3", "2", "5", "5",
             "b", "f", "e", "f", "9", "5", "6", "0", "1", "8", "9", "0", "a", "f", "d", "8", "0", "7", "0", "9">>
      [] key = <<"a">> ->
           <<"8", "6", "f", "7", "e", "4", "3", "7", "f", "a", "a", "5", "a", "7", "f", "c", "e", "1", "5", "d",
             "1", "d", "d", "c", "b", "9", "e", "a", "e", "a", "e", "a", "3", "7", "7", "6", "6", "7", "b", "8">>
      [] key = <<"a", "/", "a">> ->
           <<"8", "8", "4", "3", "c", "7", "d", "e", "5", "f", "8", "8", "b", "5", "f", "f", "c", "4", "4", "0",
             "5", "9", "0", "4", "b", "c", "8", "3", "e", "2", "6", "5", "1", "1", "c", "8", "5", "b", "c", "f">>
      [] key = <<"a", "/", "b">> ->
           <<"3", "e", "c", "6", "9", "c", "8", "5", "a", "4", "f", "f", "9", "6", "8", "3", "0", "0", "2", "4",
             "a", "f", "e", "e", "f", "2", "d", "4", "e", "5", "1", "2", "1", "8", "1", "c", "8", "f", "7", "b">>
      [] key = <<".", ".">> ->
           <<"9", "d", "8", "9", "1", "e", "7", "3", "1", "f", "7", "5", "d", "e", "a", "e", "5", "6", "8", "8",
             "4", "d", "7", "9", "e", "9", "8", "1", "6", "7", "3", "6", "b", "7", "4", "8", "8", "0", "8", "0">>
      [] key = <<"a", ":">> ->
           <<"7", "d", "a", "a", "8", "4", "a", "d", "2", "0", "5", "6", "7", "2", "f", "f", "7", "f", "9", "5",
             "9", "5", "b", "5", "1", "1", "1", "0", "9", "c", "0", "e", "c", "9", "c", "d", "4", "0", "b", "8">>
      [] key = <<"a", "_">> ->
           <<"6", "3", "6", "1", "7", "a", "3", "7", "a", "0", "c", "9", "7", "7", "f", "9", "c", "a", "2", "a",
             "d", "e", "8", "a", "9", "0", "a", "6", "2", "d", "6", "7", "0", "b", "9", "2", "6", "8", "5", "a">>

(***************************************************************************)
(* PathKey and the transforms                                              *)
(***************************************************************************)
\* CASPathTransformFunc cutting the digest into blocks of 4
CASPathTransformFuncBlock4(key) ==
    LET hashStr == HashStr(key)
        blocksize == 4
        sliceLen == Len(hashStr) \div blocksize
        paths == [i \in 1..sliceLen |-> SubSeq(hashStr, (i - 1) * blocksize + 1, (i - 1) * blocksize + blocksize)]
    IN [PathName |-> JoinStrings(paths, "/"), Filename |-> hashStr]

CASPathTransformFunc(key) ==
    LET hashStr == HashStr(key)
        blocksize == 5
        sliceLen == Len(hashStr) \div blocksize
        paths == [i \in 1..sliceLen |-> SubSeq(hashStr, (i - 1) * blocksize + 1, (i - 1) * blocksize + blocksize)]
    IN [PathName |-> JoinStrings(paths, "/"), Filename |-> hashStr]

DefaultPathTransformFunc(key) == [PathName |-> key, Filename |-> key]

FirstPathName(p) == Split(p.PathName, "/")[1]

\* calling the function value f; the caller has checked that f is not nil
ApplyTransform(f, key) ==
    IF f = "CAS" THEN CASPathTransformFunc(key) ELSE DefaultPathTransformFunc(key)

(***************************************************************************)
(* The filesystem: a function from the paths that exist to their nodes.    *)
(* The working directory <<>> and its ancestors always exist.              *)
(***************************************************************************)
DirNode == [kind |-> "dir", data |-> <<>>]
FileNode(bytes) == [kind |-> "file", data |-> bytes]

Implicit(p) == \A i \in 1..Len(p) : p[i] = ".."

Kind(f, p) == IF Implicit(p) THEN "dir" ELSE IF p \in DOMAIN f THEN f[p].kind ELSE "none"

Parent(p) == SubSeq(p, 1, Len(p) - 1)

\* the error of looking p up: "" when it exists, ENOTDIR when a component on
\* the way is a regular file, ENOENT otherwise
LookupErr(f, p) ==
    IF Kind(f, p) # "none" THEN ""
    ELSE IF \E i \in 1..(Len(p) - 1) : Kind(f, SubSeq(p, 1, i)) = "file" THEN "ENOTDIR"
    ELSE "ENOENT"

\* os.MkdirAll(p, os.ModePerm)
MkdirAll(f, p) ==
    IF Kind(f, p) = "dir" THEN [err |-> "", fs |-> f]
    ELSE IF Kind(f, p) = "file" \/ LookupErr(f, p) = "ENOTDIR" THEN [err |-> "ENOTDIR", fs |-> f]
    ELSE LET made == {SubSeq(p, 1, i) : i \in 1..Len(p)} \ DOMAIN f
         IN [err |-> "",
             fs |-> [q \in DOMAIN f \cup {m \in made : ~Implicit(m)} |->
                        IF q \in DOMAIN f THEN f[q] ELSE DirNode]]

\* os.Create without O_TRUNC: an existing file keeps its bytes
CreateNoTrunc(f, p) ==
    IF Kind(f, p) = "dir" THEN [err |-> "EISDIR", fs |-> f]
    ELSE IF Kind(f, p) = "none" /\ LookupErr(f, Parent(p)) # ""
         THEN [err |-> LookupErr(f, p), fs |-> f]
    ELSE IF Kind(f, p) = "none" /\ Kind(f, Parent(p)) = "file"
         THEN [err |-> "ENOTDIR", fs |-> f]
    ELSE IF Kind(f, p) = "file" THEN [err |-> "", fs |-> f]
    ELSE [err |-> "", fs |-> [q \in DOMAIN f \cup {p} |-> IF q = p THEN FileNode(<<>>) ELSE f[q]]]

\* os.Create(p): O_RDWR|O_CREATE|O_TRUNC
Create(f, p) ==
    IF Kind(f, p) = "dir" THEN [err |-> "EISDIR", fs |-> f]
    ELSE IF Kind(f, p) = "none" /\ LookupErr(f, Parent(p)) # ""
         THEN [err |-> LookupErr(f, p), fs |-> f]
    ELSE IF Kind(f, p) = "none" /\ Kind(f, Parent(p)) = "file"
         THEN [err |-> "ENOTDIR", fs |-> f]
    ELSE [err |-> "", fs |-> [q \in DOMAIN f \cup {p} |-> IF q = p THEN FileNode(<<>>) ELSE f[q]]]

\* a write of bytes at offset off through an open descriptor of file p; the
\* gap a truncation left below the offset reads as zero bytes
WriteAt(f, p, off, bytes) ==
    LET old == f[p].data
        len == IF Len(old) > off + Len(bytes) THEN Len(old) ELSE off + Len(bytes)
        new == [i \in 1..len |->
                   IF i > off /\ i <= off + Len(bytes) THEN bytes[i - off]
                   ELSE IF i <= Len(old) THEN old[i] ELSE Hole] \o <<>>
    IN [f EXCEPT ![p] = FileNode(new)]

\* the kernel's walk of a path string, component by component
RECURSIVE Walk(_, _, _)
Walk(f, cur, segs) ==
    IF segs = <<>> THEN [err |-> LookupErr(f, cur), path |-> cur]
    ELSE IF Kind(f, cur) = "none" THEN [err |-> LookupErr(f, cur), path |-> cur]
    ELSE IF Kind(f, cur) = "file" THEN [err |-> "ENOTDIR", path |-> cur]
    ELSE LET s == Head(segs)
         IN IF s = "" \/ s = "." THEN Walk(f, cur, Tail(segs))
            ELSE IF s = ".."
                 THEN Walk(f, IF Implicit(cur) THEN Append(cur, s) ELSE Parent(cur), Tail(segs))
            ELSE Walk(f, Append(cur, s), Tail(segs))

\* os.RemoveAll's test for a path ending in "."
endsWithDot(str) ==
    \/ str = <<".">>
    \/ Len(str) >= 2 /\ str[Len(str)] = "." /\ str[Len(str) - 1] = "/"

\* os.RemoveAll(str)
RemoveAll(f, str) ==
    IF str = <<>> THEN [err |-> "", fs |-> f]
    ELSE IF endsWithDot(str) THEN [err |-> "EINVAL", fs |-> f]
    ELSE LET w == Walk(f, <<>>, Segments(str))
         IN IF w.err = "ENOENT" THEN [err |-> "", fs |-> f]
            ELSE IF w.err # "" THEN [err |-> w.err, fs |-> f]
            ELSE IF Implicit(w.path) THEN [err |-> "EINVAL", fs |-> f]
            ELSE [err |-> "", fs |-> [q \in {d \in DOMAIN f : ~IsPrefix(w.path, d)} |-> f[q]]]

\* the size os.FileInfo reports for a directory
DirSize == 4096

(***************************************************************************)
(* Store                                                                   *)
(***************************************************************************)
sanitize(path) == ReplaceAll(path, ":", "_")

\* NewStore(opts): opts.PathTransformFunc is not read
NewStore(o) ==
    LET sanitizedRoot == sanitize(o.Root)
    IN [Root |-> sanitizedRoot,
        storageDir |-> PathOf(sanitizedRoot \o <<"_", "s", "t", "o", "r", "a", "g", "e">>),
        networkDir |-> PathOf(sanitizedRoot \o <<"_", "n", "e", "t", "w", "o", "r", "k">>),
        PathTransformFunc |-> "Default"]

\* filepath.Join(s.storageDir, sanitize(id), sanitize(pathKey.PathName))
PathNameWithRoot(s, id, pathKey) ==
    Join(Join(s.storageDir, sanitize(id)), sanitize(pathKey.PathName))

\* filepath.Join(pathNameWithRoot, sanitize(pathKey.Filename))
FullPathWithRoot(s, id, pathKey) ==
    Join(PathNameWithRoot(s, id, pathKey), sanitize(pathKey.Filename))

\* fmt.Sprintf("%s/%s/%s", s.Root, id, pathKey.FirstPathName())
FirstPathNameWithRoot(s, id, pathKey) ==
    s.Root \o <<"/">> \o id \o <<"/">> \o FirstPathName(pathKey)

\* the three paths the operations build for (id, key) on store s
ResolvePaths(s, id, key) ==
    LET pathKey == ApplyTransform(s.PathTransformFunc, key)
    IN [pathNameWithRoot |-> PathNameWithRoot(s, id, pathKey),
        fullPathWithRoot |-> FullPathWithRoot(s, id, pathKey),
        firstPathNameWithRoot |-> FirstPathNameWithRoot(s, id, pathKey),
        \* the id and Location strings as they enter the joined paths and as
        \* they enter the formatted path of Delete
        joinedParts |-> {sanitize(id), sanitize(pathKey.PathName), sanitize(pathKey.Filename)},
        formattedParts |-> {id, FirstPathName(pathKey)}]

\* ResolvePaths is a pure function of its arguments: its values on the stores,
\* ids and keys of the model, computed once
Stores ==
    {[NewStore([Root |-> r, PathTransformFunc |-> "nil"]) EXCEPT !.PathTransformFunc = t] :
        r \in Roots, t \in Transforms \ {"nil"}}
PathTable ==
    [t \in Transforms \ {"nil"} |->
        LET s == CHOOSE x \in Stores : x.PathTransformFunc = t
        IN [id \in Ids \cup IsoIds |->
               [key \in Keys \cup IsoKeys \cup CollKeys |-> ResolvePaths(s, id, key)] @@ <<>>] @@ <<>>] @@ <<>>
Paths(s, id, key) == PathTable[s.PathTransformFunc][id][key]

\* Has with the path it built before the storage directory was introduced:
\* fmt.Sprintf("%s/%s/%s", s.Root, id, pathKey.FullPath())
HasUnderRoot(s, f, id, key) ==
    IF s.PathTransformFunc = "nil"
    THEN [outcome |-> "panic", err |-> "nil func", val |-> FALSE, touched |-> {},
          parts |-> {}]
    ELSE LET pathKey == ApplyTransform(s.PathTransformFunc, key)
             fullPathWithRoot == PathOf(s.Root \o <<"/">> \o id \o <<"/">> \o pathKey.PathName
                                           \o <<"/">> \o pathKey.Filename)
             err == LookupErr(f, fullPathWithRoot)
         IN [outcome |-> "ok", err |-> err, val |-> (err # "ENOENT"),
             touched |-> {fullPathWithRoot}, parts |-> {id, pathKey.PathName, pathKey.Filename}]

\* Store.Has: calling a nil PathTransformFunc panics
Has(s, f, id, key) ==
    IF s.PathTransformFunc = "nil"
    THEN [outcome |-> "panic", err |-> "nil func", val |-> FALSE, touched |-> {},
          parts |-> {}]
    ELSE LET fullPathWithRoot == Paths(s, id, key).fullPathWithRoot
             err == LookupErr(f, fullPathWithRoot)
         IN [outcome |-> "ok", err |-> err, val |-> (err # "ENOENT"),
             touched |-> {fullPathWithRoot}, parts |-> Paths(s, id, key).joinedParts]

\* the one element of a set of one element: The({e(x) : x \in {v}}) is e
\* with v computed once
The(S) == CHOOSE x \in S : TRUE

\* Store.openFileForWriting: the file it returns is open; os.Create discards
\* the bytes of a file that was there (replaced holds them)
openFileForWriting(s, f, id, key) ==
    IF s.PathTransformFunc = "nil"
    THEN [err |-> "PathTransformFunc is not initialized", fs |-> f, file |-> <<>>,
          touched |-> {}, parts |-> {}, open |-> {}, replaced |-> <<>>]
    ELSE LET pathNameWithRoot == Paths(s, id, key).pathNameWithRoot
             fullPathWithRoot == Paths(s, id, key).fullPathWithRoot
         IN The({IF mk.err # ""
                 THEN [err |-> mk.err, fs |-> f, file |-> <<>>, touched |-> {pathNameWithRoot},
                       parts |-> Paths(s, id, key).joinedParts, open |-> {},
                       replaced |-> <<>>]
                 ELSE The({[err |-> cr.err, fs |-> cr.fs, file |-> fullPathWithRoot,
                            touched |-> {pathNameWithRoot, fullPathWithRoot},
                            parts |-> Paths(s, id, key).joinedParts,
                            open |-> IF cr.err = "" THEN {fullPathWithRoot} ELSE {},
                            replaced |-> IF cr.err = "" /\ Kind(mk.fs, fullPathWithRoot) = "file"
                                         THEN <<mk.fs[fullPathWithRoot].data>> ELSE <<>>] :
                           cr \in {Create(mk.fs, fullPathWithRoot)}}) :
                mk \in {MkdirAll(f, pathNameWithRoot)}})

\* Store.writeStream: io.Copy(f, r) of an in-memory reader; f is not closed
writeStream(s, f, id, key, r) ==
    The({IF o.err # ""
         THEN [outcome |-> "err", err |-> o.err, n |-> 0, fs |-> o.fs, touched |-> o.touched,
               parts |-> o.parts, open |-> o.open, replaced |-> o.replaced]
         ELSE [outcome |-> "ok", err |-> "", n |-> Len(r),
               fs |-> WriteAt(o.fs, o.file, 0, r), touched |-> o.touched,
               parts |-> o.parts, open |-> o.open, replaced |-> o.replaced] :
        o \in {openFileForWriting(s, f, id, key)}})

\* the decrypt transform keyed by encKey, an external collaborator
Decrypt(encKey, c) == [i \in 1..Len(c) |-> IF c[i] = "x" THEN "y" ELSE "x"] \o <<>>

\* copyDecrypt(encKey, r, f): the plaintext and the number of bytes written
copyDecrypt(encKey, r) == [bytes |-> Decrypt(encKey, r), n |-> Len(Decrypt(encKey, r))]

\* WriteDecrypt copying the bytes of r as they are, as writeStream does
WriteDecryptPlain(s, f, encKey, id, key, r) == writeStream(s, f, id, key, r)

\* Store.WriteDecrypt; f is not closed
WriteDecrypt(s, f, encKey, id, key, r) ==
    The({IF o.err # ""
         THEN [outcome |-> "err", err |-> o.err, n |-> 0, fs |-> o.fs, touched |-> o.touched,
               parts |-> o.parts, open |-> o.open, replaced |-> o.replaced]
         ELSE The({[outcome |-> "ok", err |-> "", n |-> d.n,
                    fs |-> WriteAt(o.fs, o.file, 0, d.bytes), touched |-> o.touched,
                    parts |-> o.parts, open |-> o.open, replaced |-> o.replaced] :
                   d \in {copyDecrypt(encKey, r)}}) :
        o \in {openFileForWriting(s, f, id, key)}})

\* Store.readStream: the size and the bytes the returned file yields
readStream(s, f, id, key) ==
    IF s.PathTransformFunc = "nil"
    THEN [outcome |-> "panic", err |-> "nil func", n |-> 0, bytes |-> <<>>, kind |-> "none",
          touched |-> {}, parts |-> {}, open |-> {}]
    ELSE LET fullPathWithRoot == Paths(s, id, key).fullPathWithRoot
             err == LookupErr(f, fullPathWithRoot)
         IN IF err # ""
            THEN [outcome |-> "err", err |-> err, n |-> 0, bytes |-> <<>>, kind |-> "none",
                  touched |-> {fullPathWithRoot}, parts |-> Paths(s, id, key).joinedParts,
                  open |-> {}]
            ELSE IF Kind(f, fullPathWithRoot) = "dir"
            THEN [outcome |-> "ok", err |-> "", n |-> DirSize, bytes |-> <<>>, kind |-> "dir",
                  touched |-> {fullPathWithRoot}, parts |-> Paths(s, id, key).joinedParts,
                  open |-> {fullPathWithRoot}]
            ELSE [outcome |-> "ok", err |-> "", n |-> Len(f[fullPathWithRoot].data),
                  bytes |-> f[fullPathWithRoot].data, kind |-> "file",
                  touched |-> {fullPathWithRoot}, parts |-> Paths(s, id, key).joinedParts,
                  open |-> {fullPathWithRoot}]

\* Store.Delete
Delete(s, f, id, key) ==
    IF s.PathTransformFunc = "nil"
    THEN [outcome |-> "panic", err |-> "nil func", fs |-> f, touched |-> {}, parts |-> {}]
    ELSE LET firstPathNameWithRoot == Paths(s, id, key).firstPathNameWithRoot
             rm == RemoveAll(f, firstPathNameWithRoot)
         IN [outcome |-> IF rm.err = "" THEN "ok" ELSE "err", err |-> rm.err, fs |-> rm.fs,
             touched |-> {PathOf(firstPathNameWithRoot)},
             parts |-> Paths(s, id, key).formattedParts]

\* Store.Clear
Clear(s, f) ==
    LET rm == RemoveAll(f, s.Root)
    IN [outcome |-> IF rm.err = "" THEN "ok" ELSE "err", err |-> rm.err, fs |-> rm.fs,
        touched |-> {PathOf(s.Root)}]

(***************************************************************************)
(* sanitizePathComponent                                                   *)
(***************************************************************************)
UpperCase ==
    <<"A", "B", "C", "D", "E", "F", "G", "H", "I", "J", "K", "L", "M", "N",
    "O", "P", "Q", "R", "S", "T", "U", "V", "W", "X", "Y", "Z">>
LowerCase ==
    <<"a", "b", "c", "d", "e", "f", "g", "h", "i", "j", "k", "l", "m", "n",
    "o", "p", "q", "r", "s", "t", "u", "v", "w", "x", "y", "z">>
Digits == <<"0", "1", "2", "3", "4", "5", "6", "7", "8", "9">>

Range(q) == {q[i] : i \in 1..Len(q)}

\* the characters the expression [^a-zA-Z0-9_-]+ leaves in place
SafeChars == Range(LowerCase) \cup Range(UpperCase) \cup Range(Digits) \cup {"_", "-"}

\* strings.ToLower
ToLower(str) ==
    [i \in 1..Len(str) |->
        IF \E j \in 1..Len(UpperCase) : UpperCase[j] = str[i]
        THEN LowerCase[CHOOSE j \in 1..Len(UpperCase) : UpperCase[j] = str[i]]
        ELSE str[i]] \o <<>>

\* strings.HasPrefix
HasPrefix(str, prefix) == Len(prefix) <= Len(str) /\ SubSeq(str, 1, Len(prefix)) = prefix

\* reg.ReplaceAllString(input, ""): every run of other characters is removed
Strip(input) == SelectSeq(input, LAMBDA c : c \in SafeChars)

\* sanitizePathComponent with the reserved names compared as written
sanitizePathComponentCased(input) ==
    IF \/ HasPrefix(Strip(input), <<"c", "o", "n">>)
       \/ HasPrefix(Strip(input), <<"a", "u", "x">>)
    THEN <<"f", "i", "l", "e", "_">> \o Strip(input)
    ELSE Strip(input)

sanitizePathComponent(input) ==
    IF \/ HasPrefix(ToLower(Strip(input)), <<"c", "o", "n">>)
       \/ HasPrefix(ToLower(Strip(input)), <<"a", "u", "x">>)
    THEN <<"f", "i", "l", "e", "_">> \o Strip(input)
    ELSE Strip(input)

(***************************************************************************)
(* State                                                                   *)
(***************************************************************************)
VARIABLES
    opts,       \* the StoreOpts given to NewStore
    store,      \* the Store
    fs,         \* the filesystem
    last,       \* the last call made on the store, its arguments and results
    ever,       \* the (id, key) pairs a Write or WriteDecrypt succeeded on
    writers     \* the concurrent writers: position, descriptor offset, result

vars == <<opts, store, fs, last, ever, writers>>

Writers == {1, 2}

EmptyFS == [q \in {} |-> DirNode]

NoCall == [op |-> "new", id |-> <<>>, key |-> <<>>, data |-> <<>>, ptf |-> "nil",
           outcome |-> "ok", err |-> "", n |-> 0, val |-> FALSE, bytes |-> <<>>,
           kind |-> "none", touched |-> {}, parts |-> {}, open |-> {}, replaced |-> <<>>]

Call(op, id, key, data) ==
    [NoCall EXCEPT !.op = op, !.id = id, !.key = key, !.data = data,
                   !.ptf = store.PathTransformFunc]

\* a writer: its position in Write, its arguments, the file and offset of its
\* descriptor, its results, and the writers that had returned when it opened
IdleWriter == [pc |-> "idle", id |-> <<>>, key |-> <<>>, data |-> <<>>, off |-> 0,
               file |-> <<>>, err |-> "", n |-> 0, after |-> {}]

NumFiles(f) == Cardinality({p \in DOMAIN f : f[p].kind = "file"})

\* a panic ends the process
Running == last.outcome # "panic"

Init ==
    /\ opts \in [Root : Roots, PathTransformFunc : Transforms]
    /\ store = NewStore(opts)
    /\ fs = EmptyFS
    /\ last = NoCall
    /\ ever = {}
    /\ writers = [w \in Writers |-> IdleWriter]

(***************************************************************************)
(* Actions of the sequential specification                                 *)
(***************************************************************************)
\* the caller assigns the exported field Store.PathTransformFunc before
\* using the store
SetPathTransformFunc(f) ==
    /\ last.op = "new"
    /\ f # store.PathTransformFunc
    /\ store' = [store EXCEPT !.PathTransformFunc = f]
    /\ last' = [Call("set", <<>>, <<>>, <<>>) EXCEPT !.ptf = f]
    /\ UNCHANGED <<opts, fs, ever, writers>>

DoHas(id, key) ==
    /\ Running
    /\ \E r \in {Has(store, fs, id, key)} :
          last' = [Call("has", id, key, <<>>) EXCEPT !.outcome = r.outcome, !.err = r.err,
                       !.val = r.val, !.touched = r.touched, !.parts = r.parts]
    /\ UNCHANGED <<opts, store, fs, ever, writers>>

DoClear ==
    /\ Running
    /\ \E r \in {Clear(store, fs)} :
          /\ fs' = r.fs
          /\ last' = [Call("clear", <<>>, <<>>, <<>>) EXCEPT !.outcome = r.outcome,
                          !.err = r.err, !.touched = r.touched]
    /\ UNCHANGED <<opts, store, ever, writers>>

DoDelete(id, key) ==
    /\ Running
    /\ \E r \in {Delete(store, fs, id, key)} :
          /\ fs' = r.fs
          /\ last' = [Call("delete", id, key, <<>>) EXCEPT !.outcome = r.outcome,
                          !.err = r.err, !.touched = r.touched, !.parts = r.parts]
    /\ UNCHANGED <<opts, store, ever, writers>>

DoWrite(id, key, r) ==
    /\ Running
    /\ \E w \in {writeStream(store, fs, id, key, r)} :
          /\ NumFiles(w.fs) <= MaxFiles
          /\ fs' = w.fs
          /\ last' = [Call("write", id, key, r) EXCEPT !.outcome = w.outcome, !.err = w.err,
                          !.n = w.n, !.touched = w.touched, !.parts = w.parts,
                          !.open = w.open, !.replaced = w.replaced]
          /\ ever' = IF w.outcome = "ok" THEN ever \cup {<<id, key>>} ELSE ever
    /\ UNCHANGED <<opts, store, writers>>

DoWriteDecrypt(encKey, id, key, r) ==
    /\ Running
    /\ \E w \in {WriteDecrypt(store, fs, encKey, id, key, r)} :
          /\ NumFiles(w.fs) <= MaxFiles
          /\ fs' = w.fs
          /\ last' = [Call("writeDecrypt", id, key, r) EXCEPT !.outcome = w.outcome,
                          !.err = w.err, !.n = w.n, !.touched = w.touched,
                          !.parts = w.parts, !.open = w.open, !.replaced = w.replaced]
          /\ ever' = IF w.outcome = "ok" THEN ever \cup {<<id, key>>} ELSE ever
    /\ UNCHANGED <<opts, store, writers>>

DoRead(id, key) ==
    /\ Running
    /\ \E r \in {readStream(store, fs, id, key)} :
          last' = [Call("read", id, key, <<>>) EXCEPT !.outcome = r.outcome, !.err = r.err,
                       !.n = r.n, !.bytes = r.bytes, !.kind = r.kind, !.touched = r.touched,
                       !.parts = r.parts, !.open = r.open]
    /\ UNCHANGED <<opts, store, fs, ever, writers>>

Next ==
    \/ \E f \in Transforms : SetPathTransformFunc(f)
    \/ \E id \in Ids, key \in Keys : DoHas(id, key)
    \/ DoClear
    \/ \E id \in Ids, key \in Keys : DoDelete(id, key)
    \/ \E id \in Ids, key \in Keys, r \in Contents : DoWrite(id, key, r)
    \/ \E encKey \in EncKeys, id \in Ids, key \in Keys, r \in Contents :
          DoWriteDecrypt(encKey, id, key, r)
    \/ \E id \in Ids, key \in Keys : DoRead(id, key)

Spec == Init /\ [][Next]_vars

\* the same operations on ids that share a name after sanitizing
NextIso ==
    \/ \E f \in Transforms : SetPathTransformFunc(f)
    \/ \E id \in IsoIds, key \in IsoKeys : DoHas(id, key)
    \/ DoClear
    \/ \E id \in IsoIds, key \in IsoKeys : DoDelete(id, key)
    \/ \E id \in IsoIds, key \in IsoKeys, r \in Contents : DoWrite(id, key, r)
    \/ \E encKey \in EncKeys, id \in IsoIds, key \in IsoKeys, r \in Contents :
          DoWriteDecrypt(encKey, id, key, r)
    \/ \E id \in IsoIds, key \in IsoKeys : DoRead(id, key)

SpecIso == Init /\ [][NextIso]_vars

\* the same operations on keys that share a name after sanitizing
NextKeys ==
    \/ \E f \in Transforms : SetPathTransformFunc(f)
    \/ \E id \in Ids, key \in CollKeys : DoHas(id, key)
    \/ DoClear
    \/ \E id \in Ids, key \in CollKeys : DoDelete(id, key)
    \/ \E id \in Ids, key \in CollKeys, r \in Contents : DoWrite(id, key, r)
    \/ \E encKey \in EncKeys, id \in Ids, key \in CollKeys, r \in Contents :
          DoWriteDecrypt(encKey, id, key, r)
    \/ \E id \in Ids, key \in CollKeys : DoRead(id, key)

SpecKeys == Init /\ [][NextKeys]_vars

(***************************************************************************)
(* Concurrent writers: each call of Write is the create/truncate of        *)
(* openFileForWriting followed by the copy loop of io.Copy, which moves    *)
(* ChunkLen bytes per iteration through the writer's own descriptor.       *)
(***************************************************************************)
Min(a, b) == IF a < b THEN a ELSE b

\* Store.Write is called by writer w
StartWrite(w, id, key, r) ==
    /\ writers[w].pc = "idle"
    /\ writers' = [writers EXCEPT ![w] =
                       [IdleWriter EXCEPT !.pc = "open", !.id = id, !.key = key, !.data = r]]
    /\ UNCHANGED <<opts, store, fs, last, ever>>

\* writeStream: f, err := s.openFileForWriting(id, key)
WOpen(w) ==
    /\ writers[w].pc = "open"
    /\ \E o \in {openFileForWriting(store, fs, writers[w].id, writers[w].key)} :
          /\ fs' = o.fs
          /\ writers' = [writers EXCEPT ![w] =
                IF o.err # ""
                THEN [@ EXCEPT !.pc = "done", !.err = o.err]
                ELSE [@ EXCEPT !.pc = "copy", !.file = o.file, !.off = 0,
                               !.after = {v \in Writers : writers[v].pc = "done"}]]
    /\ UNCHANGED <<opts, store, last, ever>>

\* one iteration of io.Copy: a chunk read from r is written at the offset of
\* the writer's descriptor
WCopy(w) ==
    /\ writers[w].pc = "copy"
    /\ writers[w].off < Len(writers[w].data)
    /\ \E k \in {Min(ChunkLen, Len(writers[w].data) - writers[w].off)} :
          /\ fs' = WriteAt(fs, writers[w].file, writers[w].off,
                           SubSeq(writers[w].data, writers[w].off + 1, writers[w].off + k))
          /\ writers' = [writers EXCEPT ![w].off = @ + k, ![w].n = @ + k]
    /\ UNCHANGED <<opts, store, last, ever>>

\* io.Copy meets the end of r and returns the bytes copied
WReturn(w) ==
    /\ writers[w].pc = "copy"
    /\ writers[w].off = Len(writers[w].data)
    /\ writers' = [writers EXCEPT ![w].pc = "done"]
    /\ UNCHANGED <<opts, store, fs, last, ever>>

NextConc ==
    \/ \E w \in Writers, id \in Ids, key \in ConcKeys, r \in ConcContents : StartWrite(w, id, key, r)
    \/ \E w \in Writers : WOpen(w)
    \/ \E w \in Writers : WCopy(w)
    \/ \E w \in Writers : WReturn(w)

SpecConc == Init /\ [][NextConc]_vars

(***************************************************************************)
(* Claims about the sequential store (Spec)                                *)
(***************************************************************************)
WriteOps == {"write", "writeDecrypt"}
KeyedOps == {"has", "read", "write", "writeDecrypt", "delete"}

\* C1: on a store using the identity or the CAS transform, the read that
\* directly follows write(id, k, b) succeeds, yields exactly the bytes b and
\* reports the size len(b), for every id, k and b.
C1_RoundTrip ==
    (last.op = "write" /\ last.ptf # "nil") =>
        \E r \in {readStream(store, fs, last.id, last.key)} :
            /\ r.outcome = "ok"
            /\ r.kind = "file"
            /\ r.bytes = last.data
            /\ r.n = Len(last.data)

\* C2: after clear returns without error, has(id, k) is false for every pair
\* that was written successfully before it.
C2_ClearRemovesEverything ==
    (last.op = "clear" /\ last.outcome = "ok") =>
        \A p \in ever : ~Has(store, fs, p[1], p[2]).val

\* the first shard segment of the Location of key under the store's transform
FirstSegment(key) == FirstPathName(ApplyTransform(store.PathTransformFunc, key))

\* C3: after a successful delete(id, k1) of a written key k1, every written
\* key k2 of the same id whose Location has the same first shard segment as
\* k1 (k1 itself included) is gone: has is false and read fails.
C3_CoarseDelete ==
    (last.op = "delete" /\ last.outcome = "ok" /\ <<last.id, last.key>> \in ever) =>
        \A p \in ever :
            (p[1] = last.id /\ FirstSegment(p[2]) = FirstSegment(last.key)) =>
                /\ ~Has(store, fs, p[1], p[2]).val
                /\ readStream(store, fs, p[1], p[2]).outcome = "err"

\* C4: has(id, k) is true right after a successful write(id, k, .), and for
\* every pair written successfully it stays true across every step that is
\* not an invocation of delete or clear.
C4_HasAfterWrite ==
    [][/\ (last'.op \in WriteOps /\ last'.outcome = "ok") =>
              Has(store', fs', last'.id, last'.key).val
       /\ (last'.op \notin {"delete", "clear"}) =>
              \A p \in ever : Has(store, fs, p[1], p[2]).val => Has(store', fs', p[1], p[2]).val
      ]_vars

\* C4 witness: has answered true for a pair written under the CAS transform
\* whose id needed sanitizing
C4_Witness ==
    /\ last.op = "has" /\ last.val
    /\ last.ptf = "CAS"
    /\ <<last.id, last.key>> \in ever
    /\ sanitize(last.id) # last.id
    /\ Cardinality(ever) = 2

\* C5: a has that ran to completion returns true exactly when the lookup of
\* the resolved path succeeded; every lookup error, of any kind, gives false.
C5_HasFalseOnAnyError ==
    (last.op = "has" /\ last.outcome = "ok") => (last.val <=> last.err = "")

\* C6: read(id, k) succeeds only for pairs (id, k) that were the target of a
\* successful write.
C6_ReadOnlyWritten ==
    (last.op = "read" /\ last.outcome = "ok") => <<last.id, last.key>> \in ever

\* C7: on a store whose transform function is nil, has, read, write,
\* writeDecrypt and delete all end with an error, none with a crash.
C7_NilTransformIsAnError ==
    (last.op \in KeyedOps /\ last.ptf = "nil") => last.outcome = "err"

\* the transform the construction-time configuration asks for
Configured(o) == IF o.PathTransformFunc = "nil" THEN "Default" ELSE o.PathTransformFunc

\* C8: a store left as NewStore built it resolves every keyed operation
\* through the transform of its StoreOpts: CAS when CAS was given, the
\* identity when none was.
C8_ConfiguredTransformUsed ==
    (last.op \in KeyedOps /\ store = NewStore(opts)) => last.ptf = Configured(opts)

\* C9: every path has, read, write and writeDecrypt hand to the filesystem
\* lies inside the storage directory.
C9_NoPathEscape ==
    (last.op \in {"has", "read", "write", "writeDecrypt"}) =>
        \A p \in last.touched : IsPrefix(store.storageDir, p)

(***************************************************************************)
(* Claims about concurrent writers (SpecConc)                              *)
(***************************************************************************)
\* both writers have returned without error from writes to the same (id, key)
BothWrote ==
    /\ \A w \in Writers : writers[w].pc = "done" /\ writers[w].err = ""
    /\ \A v, w \in Writers : writers[v].id = writers[w].id /\ writers[v].key = writers[w].key

\* the bytes of the object the writers wrote
Stored == fs[writers[1].file].data

\* C10: once two concurrent writes of b1 and b2 to the same (id, key) have
\* completed, the stored object is b1 in full or b2 in full.
C10_LastWriterWins ==
    BothWrote => \E w \in Writers : Stored = writers[w].data

\* C10, amended: once both writes have completed, the stored object has the
\* length of b1 or of b2, and each of its bytes is the byte of b1 or of b2 at
\* that position, or a zero byte above a truncation; it is the later writer's
\* sequence in full when that writer opened the file after the other returned.
C10_PositionWise ==
    BothWrote =>
        /\ \E w \in Writers : Len(Stored) = Len(writers[w].data)
        /\ \A i \in 1..Len(Stored) :
              \/ Stored[i] = Hole
              \/ \E w \in Writers : i <= Len(writers[w].data) /\ Stored[i] = writers[w].data[i]
        /\ \A w \in Writers : writers[w].after # {} => Stored = writers[w].data

\* C10 witness: both writes completed, their steps overlapped, and the object
\* is neither b1 nor b2
C10_Witness ==
    /\ BothWrote
    /\ \A w \in Writers : writers[w].after = {}
    /\ \A w \in Writers : Stored # writers[w].data

(***************************************************************************)
(* Further claims about the sequential store (Spec)                        *)
(***************************************************************************)
\* C11: a write to key k2 that succeeds on an empty store also succeeds when
\* a distinct key k1 of the same id is stored; the read of k2 then returns
\* the bytes written to it and the read of k1 returns what it did before.
C11_DistinctKeysIndependent ==
    [][(/\ last'.op = "write"
        /\ last'.ptf # "nil"
        /\ writeStream(store', EmptyFS, last'.id, last'.key, last'.data).outcome = "ok") =>
           \A p \in ever :
               (p[1] = last'.id /\ p[2] # last'.key) =>
                   /\ last'.outcome = "ok"
                   /\ readStream(store', fs', last'.id, last'.key).bytes = last'.data
                   /\ readStream(store', fs', p[1], p[2]) = readStream(store, fs, p[1], p[2])
      ]_vars

(***************************************************************************)
(* Claims about ids that share a name after sanitizing (SpecIso)           *)
(***************************************************************************)
\* what a caller observes of (id, key): the answer of has and the result of read
Observed(s, f, id, key) ==
    [has |-> Has(s, f, id, key).val,
     outcome |-> readStream(s, f, id, key).outcome,
     n |-> readStream(s, f, id, key).n,
     bytes |-> readStream(s, f, id, key).bytes]

\* C12: a write or writeDecrypt under id1 leaves has(id2, k) and the result
\* of read(id2, k) as they were, for every other id id2 and every key k.
C12_NamespaceIsolation ==
    [][(last'.op \in WriteOps) =>
           \A id2 \in IsoIds \ {last'.id}, k \in IsoKeys :
               Observed(store', fs', id2, k) = Observed(store, fs, id2, k)
      ]_vars

(***************************************************************************)
(* Claims about WriteDecrypt (Spec)                                        *)
(***************************************************************************)
\* C13: writeDecrypt(encKey, id, k, c) does what write(id, k, D(encKey, c))
\* does: it hands the same paths to the filesystem, ends the same way, leaves
\* the same files and returns the number of plaintext bytes; when it
\* succeeds, the read that follows returns exactly D(encKey, c).
C13_WriteDecryptRoundTrip ==
    [][(last'.op = "writeDecrypt") =>
           \A encKey \in EncKeys :
               /\ \E w \in {writeStream(store, fs, last'.id, last'.key, Decrypt(encKey, last'.data))} :
                     /\ last'.touched = w.touched
                     /\ last'.outcome = w.outcome
                     /\ last'.n = w.n
                     /\ fs' = w.fs
               /\ last'.outcome = "ok" =>
                     /\ last'.n = Len(Decrypt(encKey, last'.data))
                     /\ readStream(store', fs', last'.id, last'.key).outcome = "ok"
                     /\ readStream(store', fs', last'.id, last'.key).bytes = Decrypt(encKey, last'.data)
      ]_vars

\* C13 witness: a writeDecrypt of a ciphertext that differs from its
\* plaintext succeeded under the CAS transform
C13_Witness ==
    /\ last.op = "writeDecrypt" /\ last.outcome = "ok"
    /\ last.ptf = "CAS"
    /\ last.data = <<"x">>
    /\ readStream(store, fs, last.id, last.key).bytes = <<"y">>

(***************************************************************************)
(* sanitizePathComponent applied to strings (SpecSan)                      *)
(***************************************************************************)
\* sanitizePathComponent(input)
DoSanitize(input) ==
    /\ last' = [Call("sanitizePathComponent", <<>>, <<>>, input) EXCEPT
                    !.bytes = sanitizePathComponent(input)]
    /\ UNCHANGED <<opts, store, fs, ever, writers>>

\* sanitizePathComponent applied to the string it returned
DoSanitizeAgain ==
    /\ last.op = "sanitizePathComponent"
    /\ last' = [Call("sanitizeAgain", <<>>, <<>>, last.bytes) EXCEPT
                    !.bytes = sanitizePathComponent(last.bytes)]
    /\ UNCHANGED <<opts, store, fs, ever, writers>>

\* the function is applied to an input, then to what it returned
NextSan ==
    \/ last.op = "new" /\ \E input \in SanInputs : DoSanitize(input)
    \/ DoSanitizeAgain

SpecSan == Init /\ [][NextSan]_vars

\* C14: the string sanitizePathComponent returns holds only characters of
\* [A-Za-z0-9_-], does not start with con or aux in any letter case, and is
\* returned unchanged when the function is applied to it again.
C14_StrictSanitizer ==
    /\ (last.op = "sanitizePathComponent") =>
           /\ Range(last.bytes) \subseteq SafeChars
           /\ ~HasPrefix(ToLower(last.bytes), <<"c", "o", "n">>)
           /\ ~HasPrefix(ToLower(last.bytes), <<"a", "u", "x">>)
    /\ (last.op = "sanitizeAgain") => last.bytes = last.data

\* C14 witness: a reserved name written in mixed case, with a character to
\* remove, was renamed, and the second application returned the same string
C14_Witness ==
    /\ last.op = "sanitizeAgain"
    /\ last.data = <<"f", "i", "l", "e", "_", "a", "u", "X">>
    /\ last.bytes = last.data


(***************************************************************************)
(* Overwriting (Spec)                                                      *)
(***************************************************************************)
\* C15: when a successful write(id, k, b1) is followed by a successful
\* write(id, k, b2), exactly b2 is stored, also when b2 is shorter than b1:
\* read(id, k) then returns b2 with size len(b2).
C15_Overwrite ==
    [][(/\ last.op = "write" /\ last.outcome = "ok"
        /\ last'.op = "write" /\ last'.outcome = "ok"
        /\ last'.id = last.id /\ last'.key = last.key)
       => /\ last'.replaced = <<last.data>>
          /\ \A r \in {readStream(store', fs', last'.id, last'.key)} :
                r.outcome = "ok" /\ r.bytes = last'.data /\ r.n = Len(last'.data)]_vars

\* a write of no bytes has replaced an object of one byte
C15_Witness ==
    /\ last.op = "write" /\ last.outcome = "ok"
    /\ last.replaced = <<(<<"x">>)>> /\ last.data = <<>>
    /\ \A r \in {readStream(store, fs, last.id, last.key)} : r.bytes = <<>> /\ r.n = 0


(***************************************************************************)
(* Sanitized paths (Spec)                                                  *)
(***************************************************************************)
\* C16: has, read, write, writeDecrypt and delete all sanitize the id and
\* the Location parts before a filesystem call: no part they put into a path
\* contains ":", and every path they hand over lies under the storage
\* directory.
C16_EveryOperationSanitizes ==
    (last.op \in KeyedOps /\ last.outcome # "panic") =>
        /\ \A c \in last.parts : ":" \notin Range(c)
        /\ \A p \in last.touched : IsPrefix(store.storageDir, p)


(***************************************************************************)
(* The frame of Delete (SpecIso)                                           *)
(***************************************************************************)
\* C17: delete(id, k) changes nothing outside the first-shard-segment
\* subtree of (id, k): has and read give the same results as before for
\* every key of another id, and for every key of the same id whose Location
\* has another first shard segment.
C17_DeleteFrame ==
    [][(last'.op = "delete") =>
           \A id2 \in IsoIds, k \in IsoKeys :
               (id2 # last'.id \/ FirstSegment(k) # FirstSegment(last'.key)) =>
                   Observed(store', fs', id2, k) = Observed(store, fs, id2, k)
      ]_vars


(***************************************************************************)
(* Persistence (SpecIso)                                                   *)
(***************************************************************************)
\* C18: an object that was written and is there stays as it is while has,
\* read and write are applied to other (id, key) pairs: has stays true and
\* read keeps returning the same bytes.
C18_PersistsUntilRemoved ==
    [][(last'.op \in {"has", "read", "write"}) =>
           \A p \in ever :
               (p # <<last'.id, last'.key>> /\ Has(store, fs, p[1], p[2]).val) =>
                   Observed(store', fs', p[1], p[2]) = Observed(store, fs, p[1], p[2])
      ]_vars


(***************************************************************************)
(* The shape of the CAS Location (Spec)                                    *)
(***************************************************************************)
\* C19: for every key the store is called with under the CAS transform, the
\* empty key included, the digest d has 40 characters, the leaf name is d,
\* the sharded path is 8 fragments joined by "/", the i-th being characters
\* 5(i-1)+1 .. 5i of d, and the first shard segment is the first 5
\* characters of d.
C19_CASShape ==
    (last.op \in KeyedOps /\ last.ptf = "CAS") =>
        \A pathKey \in {CASPathTransformFunc(last.key)} :
            \A d \in {HashStr(last.key)} :
                \A frags \in {Split(pathKey.PathName, "/")} :
                    /\ Len(d) = 40
                    /\ pathKey.Filename = d
                    /\ Len(frags) = 8
                    /\ \A i \in 1..8 : frags[i] = SubSeq(d, 5 * (i - 1) + 1, 5 * i)
                    /\ FirstPathName(pathKey) = SubSeq(d, 1, 5)

\* the empty key was written under CAS, into the directory of its 8 fragments
C19_Witness ==
    /\ last.op = "write" /\ last.ptf = "CAS" /\ last.key = <<>> /\ last.outcome = "ok"
    /\ store.storageDir \o <<"q_", "da39a", "3ee5e", "6b4b0", "d3255", "bfef9", "56018",
                             "90afd", "80709">> \in last.touched


(***************************************************************************)
(* Open files (Spec)                                                       *)
(***************************************************************************)
\* C20: when an operation has returned, the only files it leaves open are
\* the stream a successful read returns to its caller: has, delete, clear,
\* write and writeDecrypt (whether they succeed or fail) and a read that
\* fails leave none.
C20_NoDescriptorLeak ==
    /\ (last.op \in {"has", "delete", "clear"} \cup WriteOps) => last.open = {}
    /\ (last.op = "read" /\ last.outcome # "ok") => last.open = {}

====
